---- MODULE Spec2Model ----
(***************************************************************************)
(* Differential-privacy mechanisms of shfl/differential_privacy/           *)
(* dp_mechanism.py: RandomizedResponseCoins, RandomizedResponseBinary,     *)
(* LaplaceMechanism, GaussianMechanism and ExponentialMechanism, with the  *)
(* validation helpers they inherit and the process-wide random generator   *)
(* they draw from.                                                         *)
(*                                                                         *)
(* Real numbers are exact.  A rational is a pair <<n, d>> in lowest terms  *)
(* with d > 0; the float values a division by 0.0 produces in numpy are    *)
(* the pairs <<1, 0>> (inf), <<-1, 0>> (-inf) and <<0, 0>> (nan).          *)
(* A real is either a rational, Num(q), or the logarithm of a              *)
(* positive rational, Ln(q): log is strictly increasing, so x < log(y) for *)
(* x = Ln(q) is q < y.  Floating-point rounding is not modelled.           *)
(***************************************************************************)
EXTENDS Integers, Sequences, FiniteSets, TLC

\* Longest data array (and longest sensitivity array) the inputs range over.
MaxLen == 2

(***************************************************************************)
(* Rationals                                                               *)
(***************************************************************************)
Abs(n) == IF n < 0 THEN -n ELSE n

RECURSIVE GCD(_, _)
GCD(a, b) == IF b = 0 THEN a ELSE GCD(b, a % b)

Rat(n, d) ==
    LET g == GCD(Abs(n), Abs(d))
        s == IF d < 0 THEN -1 ELSE 1
    IN  IF d = 0 THEN <<IF n < 0 THEN -1 ELSE IF n > 0 THEN 1 ELSE 0, 0>>
        ELSE <<(s * n) \div g, (s * d) \div g>>

Zero == <<0, 1>>
One == <<1, 1>>
RLess(a, b) == a[1] * b[2] < b[1] * a[2]
RLeq(a, b) == a[1] * b[2] <= b[1] * a[2]
RAdd(a, b) == Rat(a[1] * b[2] + b[1] * a[2], a[2] * b[2])
RSub(a, b) == Rat(a[1] * b[2] - b[1] * a[2], a[2] * b[2])
RMul(a, b) == Rat(a[1] * b[1], a[2] * b[2])
RDiv(a, b) == Rat(a[1] * b[2], a[2] * b[1])
RMax(a, b) == IF RLess(a, b) THEN b ELSE a

RECURSIVE RPow(_, _)
RPow(q, k) ==
    IF k = 0 THEN One
    ELSE IF k < 0 THEN RDiv(One, RPow(q, -k))
    ELSE RMul(q, RPow(q, k - 1))

\* F(v), with v evaluated once
Bind(v, F(_)) == CHOOSE y \in {F(x) : x \in {v}} : TRUE

(***************************************************************************)
(* Reals: Num(q) is the rational q, Ln(q) is log(q) for a rational q > 0.  *)
(***************************************************************************)
Num(q) == [tag |-> "num", q |-> q]
Ln(q) == [tag |-> "ln", q |-> q]

\* x < 0
IsNegative(x) == IF x.tag = "num" THEN RLess(x.q, Zero) ELSE RLess(x.q, One)
\* x > 0
IsPositive(x) == IF x.tag = "num" THEN RLess(Zero, x.q) ELSE RLess(One, x.q)
\* x >= 1.  log(q) >= 1 iff q >= e; e lies strictly between its consecutive
\* continued-fraction convergents 25946/9545 and 49171/18089, and every
\* rational strictly between the two has a denominator of at least
\* 9545 + 18089, so for the rationals q below that size q >= e iff
\* q >= 49171/18089
GeOne(x) == IF x.tag = "num" THEN RLeq(One, x.q) ELSE RLeq(<<49171, 18089>>, x.q)
\* x < log(y) for x = Ln(q) and a rational y > 0
LessLog(x, y) == RLess(x.q, y)

(***************************************************************************)
(* Python values.  A scalar has shape (), an ndarray of n elements shape   *)
(* (n,), a dict maps keys to arrays.  np.asarray of a dict is a 0-d object *)
(* array that wraps the dict ("objarray").                                 *)
(***************************************************************************)
None == [kind |-> "none", val |-> <<>>]
Scalar(v) == [kind |-> "scalar", val |-> <<v>>]
NdArray(s) == [kind |-> "ndarray", val |-> s]
NdArray0(v) == [kind |-> "ndarray0", val |-> <<v>>]
PyList(s) == [kind |-> "list", val |-> s]
\* a dict with the entries f, its keys in insertion order
Dict(f, keys) == [kind |-> "dict", val |-> f, keys |-> keys]
\* the 0-d object array wrapping the dict d
ObjArray(d) == [kind |-> "objarray", val |-> d.val, keys |-> d.keys]

\* isinstance(x, (np.ScalarType, np.ndarray)): a 0-d object array is an ndarray
IsArrayLike(x) == x.kind \in {"scalar", "ndarray", "ndarray0", "objarray"}
\* number of elements of an array-like value (1 for a 0-d array)
Size(x) == IF x.kind = "objarray" THEN 1 ELSE Len(x.val)
\* the shape of an array-like value: <<>> for 0-d, <<n>> for 1-d
Shape(x) == IF x.kind = "ndarray" THEN <<Len(x.val)>> ELSE <<>>

\* np.asarray(x)
AsArray(x) ==
    CASE x.kind = "scalar" -> NdArray0(x.val[1])
      [] x.kind = "list" -> NdArray(x.val)
      [] x.kind = "dict" -> ObjArray(x)
      [] OTHER -> x

\* a value of the shape of x holding the elements s
Reshape(x, s) == IF x.kind = "ndarray" THEN NdArray(s) ELSE Scalar(s[1])

(***************************************************************************)
(* The process-wide generator (np.random).  Its state is a number; every   *)
(* draw advances it and yields a uniform in [0, 1).  The sequence is a     *)
(* full-period congruential one, so each state is a seed.                  *)
(***************************************************************************)
RngStates == 0 .. 3
Step(s) == (5 * s + 3) % 4
Uniform(s) == Rat(s, 4)

\* the generator state after n draws from state s
RECURSIVE After(_, _)
After(s, n) == IF n = 0 THEN s ELSE After(Step(s), n - 1)

\* the n uniforms drawn from state s
Draws(s, n) == [i \in 1 .. n |-> Uniform(After(s, i))]

\* one Bernoulli(p) outcome from the uniform u: 1 with probability p
Bernoulli(p, u) == IF RLess(u, p) THEN 1 ELSE 0

\* the standard Laplace variate of the uniform u, on an integer grid that keeps
\* the inverse CDF's order and symmetry (u = 1/2 gives 0); noise = scale * variate
StdVariate(u) == (u[1] * 4) \div u[2] - 2

(***************************************************************************)
(* Validation helpers of DPDataAccessDefinition (shfl/private/data.py).    *)
(* Each is TRUE when the check passes and FALSE when it raises ValueError. *)
(***************************************************************************)
\* every entry of the (already np.asarray'd) data is 0 or 1
check_binary_data(data) ==
    /\ data.kind \in {"ndarray", "ndarray0"}
    /\ \A i \in 1 .. Len(data.val) : data.val[i] \in {0, 1}

\* epsilon is not negative and 0 <= delta < 1.  epsilon = 0 passes:
\* RandomizedResponseBinary(f0 = 0.5, f1 = 0.5, epsilon = log(1)) is required to
\* construct, and this check is the only one before the bound test of line 110
check_epsilon_delta(epsilon_delta) ==
    /\ ~IsNegative(epsilon_delta[1])
    /\ RLeq(Zero, epsilon_delta[2])
    /\ RLess(epsilon_delta[2], One)

\* every entry of the sensitivity is > 0
check_sensitivity_positive(sensitivity) ==
    IF sensitivity.kind \in {"dict", "objarray"}
    THEN \A k \in DOMAIN sensitivity.val : RLess(Zero, sensitivity.val[k])
    ELSE \A i \in 1 .. Len(sensitivity.val) : RLess(Zero, sensitivity.val[i])

\* the sensitivity fits the query result: a one-element sensitivity fits every
\* array and every mapping, an array needs the result's shape, a mapping needs
\* a mapping result with the same keys
check_sensitivity_shape(sensitivity, query_result) ==
    CASE sensitivity.kind = "dict" ->
            /\ query_result.kind = "dict"
            /\ DOMAIN sensitivity.val = DOMAIN query_result.val
      [] sensitivity.kind \in {"scalar", "ndarray0", "objarray"} ->
            IsArrayLike(query_result) \/ query_result.kind = "dict"
      [] sensitivity.kind = "ndarray" ->
            \/ Size(sensitivity) = 1 /\ (IsArrayLike(query_result) \/ query_result.kind = "dict")
            \/ IsArrayLike(query_result) /\ Shape(sensitivity) = Shape(query_result)
      [] OTHER -> FALSE

(***************************************************************************)
(* Results of constructors and of apply().                                 *)
(***************************************************************************)
Raised(err) == [ok |-> FALSE, err |-> err]
Built(obj) == [ok |-> TRUE, obj |-> obj]

\* apply() returned `output`, leaving the instance `self` and the generator `g`;
\* `scale` is the noise scale (or Bernoulli probability) it computed
Returned(self, g, output, scale) ==
    [status |-> "ok", err |-> "", self |-> self, rng |-> g, output |-> output, scale |-> scale]
\* apply() raised `err`, leaving the instance `self` and the generator `g`
Failed(self, g, err) ==
    [status |-> "error", err |-> err, self |-> self, rng |-> g, output |-> None, scale |-> None]

(***************************************************************************)
(* RandomizedResponseCoins                                                 *)
(***************************************************************************)
\* RandomizedResponseCoins_init deriving the budget from the configured coins:
\* log((1 - p1 + p1 * p2) / (p1 * p2)), which is log(3) only for fair coins
RandomizedResponseCoins_init_Derived(prob_head_first, prob_head_second) ==
    LET both == RMul(prob_head_first, prob_head_second)
    IN  Built([cls |-> "RandomizedResponseCoins",
               prob_head_first |-> prob_head_first,
               prob_head_second |-> prob_head_second,
               epsilon_delta |->
                   <<IF both = Zero THEN Ln(One)
                     ELSE Ln(RDiv(RAdd(RSub(One, prob_head_first), both), both)),
                     Zero>>])

RandomizedResponseCoins_init(prob_head_first, prob_head_second) ==
    Built([cls |-> "RandomizedResponseCoins",
           prob_head_first |-> prob_head_first,
           prob_head_second |-> prob_head_second,
           epsilon_delta |-> <<Ln(<<3, 1>>), Zero>>])

\* first_coin_flip drawn with p = prob_head_first instead of 1 - prob_head_first
first_coin_flip_Heads(self, g, n) ==
    [i \in 1 .. n |-> Bernoulli(self.prob_head_first, Draws(g, n)[i])]

\* first_coin_flip: Bernoulli(1 - prob_head_first) per element
first_coin_flip(self, g, n) ==
    [i \in 1 .. n |-> Bernoulli(RSub(One, self.prob_head_first), Draws(g, n)[i])]

\* second_coin_flip: Bernoulli(prob_head_second) per element, drawn after the first
second_coin_flip(self, g, n) ==
    [i \in 1 .. n |-> Bernoulli(self.prob_head_second, Draws(After(g, n), n)[i])]

\* data * first + (1 - first) * second, elementwise
CoinsResult(d, first, second) ==
    [i \in 1 .. Len(d) |-> d[i] * first[i] + (1 - first[i]) * second[i]]

\* RandomizedResponseCoins_apply flipping both coins before it checks the data
RandomizedResponseCoins_apply_DrawFirst(self, g, data0) ==
    LET data == AsArray(data0)
        n == Size(data)
    IN  IF ~check_binary_data(data) THEN Failed(self, After(g, 2 * n), "ValueError")
        ELSE Returned(self, After(g, 2 * n),
                      Reshape(data, CoinsResult(data.val, first_coin_flip(self, g, n),
                                                second_coin_flip(self, g, n))),
                      [first |-> first_coin_flip(self, g, n),
                       second |-> second_coin_flip(self, g, n)])

RandomizedResponseCoins_apply(self, g, data0) ==
    LET data == AsArray(data0)
        n == Size(data)
        first == first_coin_flip(self, g, n)
        second == second_coin_flip(self, g, n)
    IN  IF ~check_binary_data(data) THEN Failed(self, g, "ValueError")
        ELSE Returned(self, After(g, 2 * n),
                      Reshape(data, CoinsResult(data.val, first, second)),
                      [first |-> first, second |-> second])

(***************************************************************************)
(* RandomizedResponseBinary                                                *)
(***************************************************************************)
\* max(f0 / (1 - f1), f1 / (1 - f0)); evaluated only for f0, f1 inside (0, 1)
MinExpEpsilon(f0, f1) == RMax(RDiv(f0, RSub(One, f1)), RDiv(f1, RSub(One, f0)))

\* a double holds the rational q exactly: its denominator is a power of two
\* (the numerators here are far below 2^53)
Representable(q) == \E k \in 0 .. 30 : q[2] = 2 ^ k

\* line 110 computes max(f0 / (1 - f1), f1 / (1 - f0)) without rounding: f0, f1
\* and the quotient are all doubles
BoundIsExact(f0, f1) ==
    /\ Representable(f0)
    /\ Representable(f1)
    /\ Representable(MinExpEpsilon(f0, f1))

\* BelowComputedBound with <= for <: epsilon equal to the bound is refused
BelowComputedBound_NonStrict(f0, f1, epsilon, rounds_above) ==
    RLeq(epsilon.q, MinExpEpsilon(f0, f1))

\* epsilon < log(max(f0 / (1 - f1), f1 / (1 - f0))) as line 110 evaluates it in
\* doubles, for epsilon = log(q).  Away from equality the rounding is far
\* smaller than the gap and the exact comparison decides; at q = max(...) an
\* exact bound is the double of q itself and the test is false; at equality
\* with a rounded bound the test follows the rounding, `rounds_above` being
\* TRUE when the double bound comes out above the double epsilon
\* (0.8, 0.8, log(4): 0.8 / (1 - 0.8) is 4.000000000000001) and FALSE when it
\* does not (0.9, 0.9, log(9))
BelowComputedBound(f0, f1, epsilon, rounds_above) ==
    \/ LessLog(epsilon, MinExpEpsilon(f0, f1))
    \/ /\ epsilon.q = MinExpEpsilon(f0, f1)
       /\ ~BoundIsExact(f0, f1)
       /\ rounds_above

RandomizedResponseBinary_init(f0, f1, epsilon, rounds_above) ==
    IF ~check_epsilon_delta(<<epsilon, Zero>>) THEN Raised("ValueError")
    ELSE IF RLeq(f0, Zero) \/ RLeq(One, f0) THEN Raised("ValueError")
    ELSE IF RLeq(f1, Zero) \/ RLeq(One, f1) THEN Raised("ValueError")
    ELSE IF BelowComputedBound(f0, f1, epsilon, rounds_above) THEN Raised("ValueError")
    ELSE Built([cls |-> "RandomizedResponseBinary",
                f0 |-> f0, f1 |-> f1, epsilon |-> epsilon])

\* Probabilities giving a 0 entry the probability f0 instead of 1 - f0
Probabilities_KeepZero(self, d) ==
    [i \in 1 .. Len(d) |-> IF d[i] = 0 THEN self.f0 ELSE self.f1]

\* probabilities[x_zero] = 1 - f0; probabilities[~x_zero] = f1
Probabilities(self, d) ==
    [i \in 1 .. Len(d) |-> IF d[i] = 0 THEN RSub(One, self.f0) ELSE self.f1]

RandomizedResponseBinary_apply(self, g, data0) ==
    LET data == AsArray(data0)
        n == Size(data)
        probabilities == Probabilities(self, data.val)
        x_response == [i \in 1 .. n |-> Bernoulli(probabilities[i], Draws(g, n)[i])]
    IN  IF ~check_binary_data(data) THEN Failed(self, g, "ValueError")
        ELSE Returned(self, After(g, n), Reshape(data, x_response), probabilities)

(***************************************************************************)
(* Queries.  IdentityFunction returns the data unchanged; ToList is a      *)
(* caller-supplied query whose get() returns an array's elements as a      *)
(* plain list and every other value unchanged.                             *)
(***************************************************************************)
QueryGet(query, data) ==
    IF query = "ToList" /\ data.kind = "ndarray" THEN PyList(data.val) ELSE data

\* query = None selects IdentityFunction()
DefaultQuery(query) == IF query = "None" THEN "IdentityFunction" ELSE query

\* the keys of a mapping in iteration order
KeysOf(d) == d.keys

\* number of draws taken by the first j keys of the mapping d
RECURSIVE SizeBefore(_, _)
SizeBefore(d, j) ==
    IF j = 0 THEN 0 ELSE SizeBefore(d, j - 1) + Len(d.val[KeysOf(d)[j]])

\* position of key k in the iteration order of d
KeyIndex(d, k) == CHOOSE j \in 1 .. Len(KeysOf(d)) : KeysOf(d)[j] = k

(***************************************************************************)
(* LaplaceMechanism                                                        *)
(***************************************************************************)
LaplaceMechanism_init(sensitivity, epsilon, query) ==
    IF ~check_epsilon_delta(<<epsilon, Zero>>) THEN Raised("ValueError")
    ELSE IF ~check_sensitivity_positive(sensitivity) THEN Raised("ValueError")
    ELSE Built([cls |-> "LaplaceMechanism",
                sensitivity |-> sensitivity,
                epsilon |-> epsilon,
                query |-> DefaultQuery(query)])

\* the element of the array b that broadcasts to position i
Broadcast(b, i) == IF Len(b) = 1 THEN b[1] ELSE b[i]

\* v + np.random.laplace(loc=0.0, scale=b, size=v.shape): the i-th element takes
\* the i-th variate drawn from state g
LaplaceNoise(v, b, g) ==
    [i \in 1 .. Len(v) |->
        RAdd(Rat(v[i], 1),
             RMul(Broadcast(b, i), Rat(StdVariate(Draws(g, Len(v))[i]), 1)))]

\* lines 203-208: the scalar / ndarray branch.  The sensitivity is an array
\* when line 205 divides, so epsilon = 0 gives the scale inf and raises nothing
LaplaceArrayBranch(self, g, data) ==
    LET self1 == [self EXCEPT !.sensitivity = AsArray(self.sensitivity)]
        checked == check_sensitivity_shape(self1.sensitivity, QueryGet(self.query, data))
        b == [i \in 1 .. Size(self1.sensitivity) |->
                 RDiv(self1.sensitivity.val[i], self1.epsilon.q)]
        query_result == AsArray(QueryGet(self.query, data))
    IN  IF ~checked THEN Failed(self1, g, "ValueError")
        ELSE IF self1.sensitivity.kind = "objarray" THEN Failed(self1, g, "TypeError")
        ELSE Returned(self1, After(g, Size(query_result)),
                      Reshape(query_result, LaplaceNoise(query_result.val, b, g)),
                      NdArray(b))

\* DictScale taking every key's scale from the first key of the sensitivity
DictScale_FirstKey(self, k) ==
    IF self.sensitivity.kind = "dict"
    THEN RDiv(self.sensitivity.val[KeysOf(self.sensitivity)[1]], self.epsilon.q)
    ELSE RDiv(self.sensitivity.val[1], self.epsilon.q)

\* b = {k: v / epsilon} for a mapping sensitivity, sensitivity / epsilon otherwise
DictScale(self, k) ==
    IF self.sensitivity.kind = "dict"
    THEN RDiv(self.sensitivity.val[k], self.epsilon.q)
    ELSE RDiv(self.sensitivity.val[1], self.epsilon.q)

\* lines 210-219: the dict branch; keys draw their noise in iteration order.
\* The quotients of lines 213 and 217 are Python float divisions when the
\* sensitivity is a mapping of floats or a float, and raise on epsilon = 0
\* before anything is drawn; a sensitivity that is an array divides as numpy
\* does and gives the scale inf
LaplaceDictBranch(self, g, query_result) ==
    LET f == query_result.val
        b == [k \in DOMAIN f |-> DictScale(self, k)]
        output == [k \in DOMAIN f |->
                      LaplaceNoise(f[k], <<b[k]>>,
                                   After(g, SizeBefore(query_result,
                                                       KeyIndex(query_result, k) - 1)))]
        drawn == SizeBefore(query_result, Len(KeysOf(query_result)))
    IN  IF ~check_sensitivity_shape(self.sensitivity, query_result)
        THEN Failed(self, g, "ValueError")
        ELSE IF self.sensitivity.kind = "objarray" THEN Failed(self, g, "TypeError")
        ELSE IF self.epsilon.q = Zero /\ self.sensitivity.kind \in {"dict", "scalar"}
        THEN Failed(self, g, "ZeroDivisionError")
        ELSE Returned(self, After(g, drawn),
                      Dict(output, KeysOf(query_result)),
                      Dict(b, IF self.sensitivity.kind = "dict"
                              THEN KeysOf(self.sensitivity) ELSE KeysOf(query_result)))

\* LaplaceMechanism_apply sending every result that is not a mapping through the
\* scalar / ndarray branch
LaplaceMechanism_apply_Coerce(self, g, data) ==
    LET query_result == QueryGet(self.query, data)
    IN  IF query_result.kind = "dict" THEN LaplaceDictBranch(self, g, query_result)
        ELSE LaplaceArrayBranch(self, g, data)

LaplaceMechanism_apply(self, g, data) ==
    LET query_result == QueryGet(self.query, data)
    IN  IF IsArrayLike(query_result) THEN LaplaceArrayBranch(self, g, data)
        ELSE IF query_result.kind = "dict" THEN LaplaceDictBranch(self, g, query_result)
        ELSE Returned(self, g, None, None)

(***************************************************************************)
(* GaussianMechanism.  std = sqrt(2 * log(1.25 / delta)) * sensitivity /   *)
(* epsilon is kept as the pair of delta and the rational sensitivity /     *)
(* epsilon; an output element is <<v, c>>, standing for                    *)
(* v + sqrt(2 * log(1.25 / delta)) * c.                                    *)
(***************************************************************************)
GaussianMechanism_init(sensitivity, epsilon_delta, query) ==
    IF ~check_epsilon_delta(epsilon_delta) THEN Raised("ValueError")
    ELSE IF GeOne(epsilon_delta[1]) THEN Raised("ValueError")
    ELSE IF ~check_sensitivity_positive(sensitivity) THEN Raised("ValueError")
    ELSE Built([cls |-> "GaussianMechanism",
                sensitivity |-> sensitivity,
                epsilon_delta |-> epsilon_delta,
                query |-> DefaultQuery(query)])

GaussianMechanism_apply(self, g, data) ==
    LET query_result == AsArray(QueryGet(self.query, data))
        sensitivity == AsArray(self.sensitivity)
        n == Size(query_result)
        c == [i \in 1 .. Size(sensitivity) |->
                 RDiv(sensitivity.val[i], self.epsilon_delta[1].q)]
        output == [i \in 1 .. n |->
                      <<Rat(query_result.val[i], 1),
                        RMul(Broadcast(c, i), Rat(StdVariate(Draws(g, n)[i]), 1))>>]
    IN  IF ~check_sensitivity_shape(sensitivity, query_result)
        THEN Failed(self, g, "ValueError")
        ELSE IF self.epsilon_delta[2] = Zero THEN Failed(self, g, "ZeroDivisionError")
        \* the product of line 286 fails on a sensitivity that wraps a mapping
        ELSE IF sensitivity.kind = "objarray" THEN Failed(self, g, "TypeError")
        \* np.random.normal draws for the 0-d shape, then the sum of line 289 fails
        ELSE IF query_result.kind = "objarray" THEN Failed(self, After(g, n), "TypeError")
        ELSE Returned(self, After(g, n), Reshape(query_result, output),
                      [delta |-> self.epsilon_delta[2], c |-> c])

(***************************************************************************)
(* ExponentialMechanism.  epsilon is Ln(q) and every utility is a whole    *)
(* multiple of 2 * delta_u, so exp(epsilon * u / (2 * delta_u)) is the     *)
(* rational q ^ (u / (2 * delta_u)).                                       *)
(***************************************************************************)
ExponentialMechanism_init(u, r, delta_u, epsilon, size) ==
    IF ~check_epsilon_delta(<<epsilon, Zero>>) THEN Raised("ValueError")
    ELSE Built([cls |-> "ExponentialMechanism",
                u |-> u, r |-> r, delta_u |-> delta_u,
                epsilon |-> epsilon, size |-> size])

\* number of entries of the data equal to 1 (0 for a mapping)
CountOnes(data) ==
    IF data.kind = "dict" THEN 0
    ELSE Cardinality({i \in 1 .. Len(data.val) : data.val[i] = 1})

\* the caller's utility functions u(x, r), vectorized over r: "uniform" scores
\* every candidate 0, "count" scores the candidate equal to the number of ones
\* of x with 0 and every other with -2
Utility(u, data, r) ==
    [i \in 1 .. Len(r) |->
        IF u = "count" /\ r[i] # CountOnes(data) THEN <<-2, 1>> ELSE Zero]

\* p = np.exp(epsilon * u_points / (2 * delta_u)), before normalisation
Weights(self, data) ==
    LET u_points == Utility(self.u, data, self.r)
    IN  [i \in 1 .. Len(self.r) |->
            RPow(self.epsilon.q, RDiv(u_points[i], RMul(<<2, 1>>, self.delta_u))[1])]

\* w[1] + ... + w[n]
RSum(w, n) ==
    LET partial[i \in 0 .. n] == IF i = 0 THEN Zero ELSE RAdd(partial[i - 1], w[i])
    IN  partial[n]

\* Normalized leaving the weights as they are, not divided by their sum
Normalized_Unscaled(w) == [i \in 1 .. Len(w) |-> w[i]]

\* p /= p.sum()
Normalized(w) ==
    LET total == RSum(w, Len(w))
    IN  [i \in 1 .. Len(w) |-> RDiv(w[i], total)]

\* np.random.choice(a, p=p) for the uniform x: the first candidate whose
\* cumulative probability exceeds x
Choice(a, p, x) ==
    LET cdf == [i \in 1 .. Len(a) |-> RSum(p, i)]
    IN  a[CHOOSE i \in 1 .. Len(a) :
            /\ RLess(x, cdf[i])
            /\ \A j \in 1 .. i - 1 : ~RLess(x, cdf[j])]

\* np.random.choice(a=r, size=size, replace=True, p=p) from generator state g
Sample(a, p, size, g) ==
    LET xs == Draws(g, size)
    IN  [i \in 1 .. size |-> Choice(a, p, xs[i])]

ExponentialMechanism_apply(self, g, data) ==
    LET r_range == self.r
        Draw(p) == Returned(self, After(g, self.size),
                            NdArray(Sample(r_range, p, self.size, g)), NdArray(p))
    IN  Bind(Normalized(Weights(self, data)), Draw)

(***************************************************************************)
(* The epsilon_delta property of each class.                               *)
(***************************************************************************)
EpsilonDelta(self) ==
    IF self.cls \in {"RandomizedResponseCoins", "GaussianMechanism"}
    THEN self.epsilon_delta
    ELSE <<self.epsilon, Zero>>

(***************************************************************************)
(* The inputs the callers range over.                                      *)
(***************************************************************************)
Keys == {"a", "b"}
DataVals == 0 .. 2
Arrays == UNION {[1 .. n -> DataVals] : n \in 1 .. MaxLen}
DictArrays == {<<1>>, <<1, 2>>}
\* the orders in which the keys K can have been inserted
Orders(K) == {o \in [1 .. Cardinality(K) -> K] : \A i, j \in DOMAIN o : o[i] = o[j] => i = j}
Dicts ==
    UNION {{Dict(f, o) : f \in [K -> DictArrays], o \in Orders(K)} : K \in SUBSET Keys \ {{}}}
DataInputs ==
    {Scalar(v) : v \in DataVals} \cup {NdArray(a) : a \in Arrays} \cup Dicts

Probs == {Rat(k, 2) : k \in 0 .. 2}
\* quarters, and 0.8, which no double holds exactly
FValues == {Rat(k, 4) : k \in 0 .. 4} \cup {Rat(4, 5)}
LnEpsilons == {Ln(Rat(1, 2)), Ln(One), Ln(Rat(2, 1)), Ln(Rat(3, 1)), Ln(Rat(4, 1))}
NumEpsilons == {Num(Rat(-1, 2)), Num(Zero), Num(Rat(1, 2)), Num(One)}
Deltas == {Zero, Rat(1, 2), One}
Queries == {"None", "ToList"}
\* a sensitivity array has at least two entries
Sensitivities ==
    {Scalar(Zero), Scalar(One), Scalar(Rat(2, 1))}
    \cup {NdArray([i \in 1 .. n |-> Rat(i, 1)]) : n \in 2 .. MaxLen}
    \cup {Dict([k \in {"a"} |-> Rat(2, 1)], <<"a">>),
          Dict([k \in Keys |-> IF k = "a" THEN One ELSE Rat(2, 1)], <<"a", "b">>)}
Utilities == {"uniform", "count"}
ResponseSpaces == {<<0, 1>>, <<0, 1, 2>>}
DeltaUs == {One, Rat(1, 2)}
Sizes == {1, 2}
ExpEpsilons == {Ln(Rat(1, 2)), Ln(One), Ln(Rat(2, 1)), Ln(Rat(3, 1))}

(***************************************************************************)
(* State: the mechanism instance the caller holds (None before one is      *)
(* built), the constructor call that built it, the generator (seeded to    *)
(* any state at the start), and the record of the last call: what went in  *)
(* and what came out.                                                      *)
(***************************************************************************)
VARIABLES mech, args, rng, last

vars == <<mech, args, rng, last>>

\* the result of a constructor call, in the form of a call's outcome
Outcome(r, g) ==
    IF r.ok THEN Returned(r.obj, g, None, None) ELSE Failed(None, g, r.err)

NoCall == [op |-> "none", input |-> None, rng0 |-> 0, mech0 |-> None,
           res |-> Returned(None, 0, None, None)]

\* the constructor call `call`, evaluated
New(call) ==
    CASE call.cls = "RandomizedResponseCoins" ->
            RandomizedResponseCoins_init(call.a[1], call.a[2])
      [] call.cls = "RandomizedResponseBinary" ->
            RandomizedResponseBinary_init(call.a[1], call.a[2], call.a[3], call.a[4])
      [] call.cls = "LaplaceMechanism" ->
            LaplaceMechanism_init(call.a[1], call.a[2], call.a[3])
      [] call.cls = "GaussianMechanism" ->
            GaussianMechanism_init(call.a[1], call.a[2], call.a[3])
      [] call.cls = "ExponentialMechanism" ->
            ExponentialMechanism_init(call.a[1], call.a[2], call.a[3], call.a[4], call.a[5])

\* self.apply(data) with the generator in state g
ApplyOf(self, g, data) ==
    CASE self.cls = "RandomizedResponseCoins" -> RandomizedResponseCoins_apply(self, g, data)
      [] self.cls = "RandomizedResponseBinary" -> RandomizedResponseBinary_apply(self, g, data)
      [] self.cls = "LaplaceMechanism" -> LaplaceMechanism_apply(self, g, data)
      [] self.cls = "GaussianMechanism" -> GaussianMechanism_apply(self, g, data)
      [] self.cls = "ExponentialMechanism" -> ExponentialMechanism_apply(self, g, data)

Init ==
    /\ mech = None
    /\ args = [cls |-> "none", a |-> <<>>]
    /\ rng \in RngStates
    /\ last = NoCall

\* a constructor call: the instance on success, no instance when it raises
Construct(call) ==
    /\ args.cls = "none"
    /\ last' = [op |-> "init", input |-> None, rng0 |-> rng, mech0 |-> None,
                res |-> Outcome(New(call), rng)]
    /\ mech' = last'.res.self
    /\ args' = call
    /\ UNCHANGED rng

\* the constructor calls the callers make, one set per class
CoinsCalls ==
    {[cls |-> "RandomizedResponseCoins", a |-> <<p1, p2>>] : p1 \in Probs, p2 \in Probs}

BinaryCalls ==
    {[cls |-> "RandomizedResponseBinary", a |-> <<f0, f1, epsilon, rounds_above>>] :
        f0 \in FValues, f1 \in FValues, epsilon \in LnEpsilons, rounds_above \in BOOLEAN}

LaplaceCalls ==
    {[cls |-> "LaplaceMechanism", a |-> <<sensitivity, epsilon, query>>] :
        sensitivity \in Sensitivities, epsilon \in NumEpsilons, query \in Queries}

GaussianCalls ==
    {[cls |-> "GaussianMechanism", a |-> <<sensitivity, <<epsilon, delta>>, query>>] :
        sensitivity \in Sensitivities, epsilon \in NumEpsilons, delta \in Deltas,
        query \in Queries}

ExponentialCalls ==
    {[cls |-> "ExponentialMechanism", a |-> <<u, r, delta_u, epsilon, size>>] :
        u \in Utilities, r \in ResponseSpaces, delta_u \in DeltaUs,
        epsilon \in ExpEpsilons, size \in Sizes}

NewCoins == \E call \in CoinsCalls : Construct(call)

NewBinary == \E call \in BinaryCalls : Construct(call)

NewLaplace == \E call \in LaplaceCalls : Construct(call)

NewGaussian == \E call \in GaussianCalls : Construct(call)

NewExponential == \E call \in ExponentialCalls : Construct(call)

\* mech.apply(data): the instance and the generator as the call leaves them
Apply(cls) ==
    /\ mech # None
    /\ mech.cls = cls
    /\ \E data \in DataInputs :
        /\ last' = [op |-> "apply", input |-> data, rng0 |-> rng, mech0 |-> mech,
                    res |-> ApplyOf(mech, rng, data)]
        /\ mech' = last'.res.self
        /\ rng' = last'.res.rng
        /\ UNCHANGED args

CoinsApply == Apply("RandomizedResponseCoins")
BinaryApply == Apply("RandomizedResponseBinary")
LaplaceApply == Apply("LaplaceMechanism")
GaussianApply == Apply("GaussianMechanism")
ExponentialApply == Apply("ExponentialMechanism")

Next ==
    \/ NewCoins
    \/ NewBinary
    \/ NewLaplace
    \/ NewGaussian
    \/ NewExponential
    \/ CoinsApply
    \/ BinaryApply
    \/ LaplaceApply
    \/ GaussianApply
    \/ ExponentialApply

Spec == Init /\ [][Next]_vars

(***************************************************************************)
(* Properties                                                              *)
(***************************************************************************)
HasInstance == mech # None
IsApply == last.op = "apply"
IsInit(cls) == last.op = "init" /\ args.cls = cls

\* what the last apply() would have done on a freshly constructed instance
FreshApply == ApplyOf(New(args).obj, last.rng0, last.input)

\* every element of the input is 0 or 1
IsBinaryInput(d) ==
    /\ d.kind \in {"scalar", "ndarray"}
    /\ \A i \in 1 .. Len(d.val) : d.val[i] \in {0, 1}

\* C1: an apply() call that fails (non-binary data, or a sensitivity that does
\* not fit the query result) leaves the mechanism instance exactly as it was
\* before the call.
C1_FailedApplyLeavesInstance ==
    (IsApply /\ last.res.status = "error") => mech = last.mech0

\* C2: after any sequence of apply() calls every configuration field still holds
\* the value the constructor gave it: apply() writes to no instance field.
C2_FieldsKeepConstructedValues ==
    HasInstance => mech = New(args).obj

\* C3: a GaussianMechanism exists only with 0 < epsilon < 1 and delta > 0, so
\* none reaches apply() with delta = 0.
C3_GaussianBudgetValid ==
    (HasInstance /\ mech.cls = "GaussianMechanism") =>
        /\ IsPositive(mech.epsilon_delta[1])
        /\ ~GeOne(mech.epsilon_delta[1])
        /\ RLess(Zero, mech.epsilon_delta[2])

Half == Rat(1, 2)

\* a RandomizedResponseBinary(f0 = 0.5, f1 = 0.5, epsilon) call was the last call
IsHalfHalfInit ==
    /\ IsInit("RandomizedResponseBinary")
    /\ args.a[1] = Half
    /\ args.a[2] = Half

\* C4: for RandomizedResponseBinary with f0 = f1 = 0.5 the minimum required
\* epsilon is log(1) = 0, and construction succeeds for every epsilon >= 0,
\* epsilon = log(1) = 0 included.
C4_HalfHalfAcceptsNonNegativeEpsilon ==
    (IsHalfHalfInit /\ ~IsNegative(args.a[3])) =>
        /\ MinExpEpsilon(Half, Half) = One
        /\ last.res.status = "ok"
        /\ HasInstance
        /\ mech.cls = "RandomizedResponseBinary"
        /\ EpsilonDelta(mech) = <<args.a[3], Zero>>

\* RandomizedResponseBinary(0.5, 0.5, log(1)) was built
C4_Witness ==
    /\ IsHalfHalfInit
    /\ args.a[3] = Ln(One)
    /\ last.res.status = "ok"
    /\ HasInstance
    /\ mech.cls = "RandomizedResponseBinary"
    /\ mech.epsilon = Ln(One)

\* f lies strictly inside (0, 1)
InsideUnit(f) == RLess(Zero, f) /\ RLess(f, One)

\* exp(epsilon) < max(f0 / (1 - f1), f1 / (1 - f0)), for f0, f1 inside (0, 1)
BelowBound(f0, f1, epsilon) ==
    \/ epsilon.q[1] * (f0[2] * (f1[2] - f1[1])) < epsilon.q[2] * (f0[1] * f1[2])
    \/ epsilon.q[1] * (f1[2] * (f0[2] - f0[1])) < epsilon.q[2] * (f1[1] * f0[2])

\* C5: RandomizedResponseBinary construction fails, producing no instance, when
\* f0 or f1 is outside (0, 1) or epsilon < log(max(f0/(1-f1), f1/(1-f0))); with
\* f0, f1 inside (0, 1) and epsilon positive and at least that bound (equality
\* included) it succeeds and epsilon_delta is (epsilon, 0).
C5_BinaryConstruction ==
    IsInit("RandomizedResponseBinary") =>
        LET f0 == args.a[1]
            f1 == args.a[2]
            epsilon == args.a[3]
            inside == InsideUnit(f0) /\ InsideUnit(f1)
        IN  /\ (~inside \/ BelowBound(f0, f1, epsilon)) =>
                (last.res.status = "error" /\ mech = None)
            /\ (inside /\ IsPositive(epsilon) /\ ~BelowBound(f0, f1, epsilon)) =>
                /\ last.res.status = "ok"
                /\ HasInstance
                /\ EpsilonDelta(mech) = <<epsilon, Zero>>

\* C6: every RandomizedResponseCoins instance reports epsilon_delta = (ln 3, 0),
\* whatever its probabilities and after any sequence of apply() calls.
C6_CoinsBudgetIsLn3 ==
    (HasInstance /\ mech.cls = "RandomizedResponseCoins") =>
        EpsilonDelta(mech) = <<Ln(Rat(3, 1)), Zero>>

C6_Witness ==
    /\ HasInstance
    /\ mech.cls = "RandomizedResponseCoins"
    /\ mech.prob_head_first = One
    /\ mech.prob_head_second = Zero
    /\ IsApply
    /\ last.res.status = "ok"
    /\ EpsilonDelta(mech) = <<Ln(Rat(3, 1)), Zero>>

\* C7: in RandomizedResponseCoins.apply and RandomizedResponseBinary.apply the
\* binary-data check runs before any draw: non-binary input raises ValueError,
\* returns nothing and leaves the generator where it was; binary input returns
\* an output of the input's shape with every element 0 or 1.
C7_BinaryCheckBeforeDraw ==
    (IsApply /\ last.mech0.cls \in {"RandomizedResponseCoins", "RandomizedResponseBinary"}) =>
        IF IsBinaryInput(last.input)
        THEN /\ last.res.status = "ok"
             /\ last.res.output.kind = last.input.kind
             /\ Len(last.res.output.val) = Len(last.input.val)
             /\ \A i \in 1 .. Len(last.res.output.val) : last.res.output.val[i] \in {0, 1}
        ELSE /\ last.res.status = "error"
             /\ last.res.err = "ValueError"
             /\ last.res.output = None
             /\ rng = last.rng0

C7_Witness ==
    /\ IsApply
    /\ last.mech0.cls = "RandomizedResponseCoins"
    /\ last.input = NdArray(<<1, 2>>)
    /\ last.res.status = "error"
    /\ rng = last.rng0

\* C8: the outcome of apply() on an input that a fresh instance accepts is a
\* function of the construction parameters, the input and the generator state
\* only, not of the calls made before.
C8_OutputIndependentOfHistory ==
    (IsApply /\ FreshApply.status = "ok") =>
        /\ last.res.status = "ok"
        /\ last.res.output = FreshApply.output

\* the values a standard variate takes
Variates == {StdVariate(Uniform(s)) : s \in RngStates}

\* x = v + b * z for one of the variates z
IsNoised(x, v, b) == \E z \in Variates : x = RAdd(Rat(v, 1), RMul(b, Rat(z, 1)))

\* C9: LaplaceMechanism.apply on a mapping result returns a mapping with exactly
\* the result's keys, the noise of key k having scale sensitivity[k] / epsilon
\* for a per-key sensitivity and sensitivity / epsilon for a scalar one; on a
\* scalar or array result the scale is sensitivity / epsilon, elementwise.
C9_LaplaceScale ==
    (IsApply /\ last.mech0.cls = "LaplaceMechanism" /\ last.res.status = "ok") =>
        LET self == last.mech0
            result == QueryGet(self.query, last.input)
            output == last.res.output
            SensOf(k) == IF self.sensitivity.kind = "dict"
                         THEN self.sensitivity.val[k]
                         ELSE self.sensitivity.val[1]
            b(k) == RDiv(SensOf(k), self.epsilon.q)
            be(i) == RDiv(Broadcast(self.sensitivity.val, i), self.epsilon.q)
        IN  CASE result.kind = "dict" ->
                    /\ output.kind = "dict"
                    /\ DOMAIN output.val = DOMAIN result.val
                    /\ KeysOf(output) = KeysOf(result)
                    /\ DOMAIN last.res.scale.val = DOMAIN result.val
                    /\ \A k \in DOMAIN result.val :
                        /\ last.res.scale.val[k] = b(k)
                        /\ Len(output.val[k]) = Len(result.val[k])
                        /\ \A i \in 1 .. Len(result.val[k]) :
                            IsNoised(output.val[k][i], result.val[k][i], b(k))
              [] IsArrayLike(result) ->
                    /\ Len(output.val) = Len(result.val)
                    /\ Len(last.res.scale.val) = Len(self.sensitivity.val)
                    /\ \A i \in 1 .. Len(self.sensitivity.val) : last.res.scale.val[i] = be(i)
                    /\ \A i \in 1 .. Len(result.val) :
                        IsNoised(output.val[i], result.val[i], be(i))
              [] OTHER -> TRUE

\* a two-key result noised under a per-key sensitivity with different scales
C9_Witness ==
    /\ IsApply
    /\ last.mech0.cls = "LaplaceMechanism"
    /\ last.res.status = "ok"
    /\ last.mech0.sensitivity.kind = "dict"
    /\ last.res.output.kind = "dict"
    /\ DOMAIN last.res.output.val = Keys
    /\ last.res.scale.val["a"] # last.res.scale.val["b"]
    /\ last.res.output.val["a"][1] # Rat(last.input.val["a"][1], 1)
    /\ last.res.output.val["b"][1] # Rat(last.input.val["b"][1], 1)

\* the binary inputs of the shape of d
SameShapeBinary(d) ==
    {x \in DataInputs : x.kind = d.kind /\ IsBinaryInput(x) /\ Len(x.val) = Len(d.val)}

\* C10: RandomizedResponseCoins.apply returns data * first + (1 - first) * second
\* per element, first being 1 (tails: the true value) with probability
\* 1 - prob_head_first and second 1 with probability prob_head_second; with
\* prob_head_first = 0 the output is the input, with prob_head_first = 1 it does
\* not depend on the input.
C10_CoinsClosedForm ==
    (IsApply /\ last.mech0.cls = "RandomizedResponseCoins" /\ last.res.status = "ok") =>
        LET self == last.mech0
            d == last.input.val
            n == Len(d)
            out == last.res.output.val
            tails(i) == RLess(Uniform(After(last.rng0, i)), RSub(One, self.prob_head_first))
            second(i) == IF RLess(Uniform(After(last.rng0, n + i)), self.prob_head_second)
                         THEN 1 ELSE 0
        IN  /\ Len(out) = n
            /\ \A i \in 1 .. n : out[i] = IF tails(i) THEN d[i] ELSE second(i)
            /\ self.prob_head_first = Zero => out = d
            /\ self.prob_head_first = One =>
                \A x \in SameShapeBinary(last.input) :
                    ApplyOf(self, last.rng0, x).output = last.res.output

\* fair coins on <<0, 1>>: the second element is answered by the second coin
C10_Witness ==
    /\ IsApply
    /\ last.mech0.cls = "RandomizedResponseCoins"
    /\ last.mech0.prob_head_first = Half
    /\ last.res.status = "ok"
    /\ last.input = NdArray(<<0, 1>>)
    /\ last.res.output.val[1] = 0
    /\ last.res.output.val[2] = 0

\* C11: RandomizedResponseBinary.apply gives the Bernoulli draw of each element
\* of a binary input the success probability f1 when the element is 1 and
\* 1 - f0 when it is 0, from that element's value only, and the output has the
\* shape of the input.
C11_BinaryResponseProbabilities ==
    (IsApply /\ last.mech0.cls = "RandomizedResponseBinary" /\ IsBinaryInput(last.input)) =>
        LET self == last.mech0
            d == last.input.val
            p == last.res.scale
            out == last.res.output
        IN  /\ last.res.status = "ok"
            /\ Len(p) = Len(d)
            /\ \A i \in 1 .. Len(d) :
                /\ d[i] = 1 => p[i] = self.f1
                /\ d[i] = 0 => p[i] = RSub(One, self.f0)
                /\ out.val[i] = IF RLess(Uniform(After(last.rng0, i)), p[i]) THEN 1 ELSE 0
            /\ out.kind = last.input.kind
            /\ Len(out.val) = Len(d)

\* f0 = f1 = 0.25 on <<0, 1>>: the 0 is drawn with 0.75, the 1 with 0.25
C11_Witness ==
    /\ IsApply
    /\ last.mech0.cls = "RandomizedResponseBinary"
    /\ last.mech0.f0 = Rat(1, 4)
    /\ last.input = NdArray(<<0, 1>>)
    /\ last.res.status = "ok"
    /\ last.res.scale = <<Rat(3, 4), Rat(1, 4)>>
    /\ last.res.output.kind = "ndarray"
    /\ Len(last.res.output.val) = 2

\* the candidates of the response space r, as a set
Candidates(r) == {r[i] : i \in 1 .. Len(r)}

\* C12: ExponentialMechanism.apply samples with weights exp(epsilon * u /
\* (2 * delta_u)) normalized to sum to 1: any two weights stand in the ratio of
\* their exponentials, and when every candidate has the same utility each
\* weight is 1 / |r|, whatever epsilon > 0 and delta_u; the call returns
\* exactly `size` samples, each an element of r.  Every epsilon the constructor
\* lets through is covered, epsilon = 0 (all weights equal) included.
C12_ExponentialWeights ==
    (IsApply /\ last.mech0.cls = "ExponentialMechanism") =>
        LET self == last.mech0
            n == Len(self.r)
            u == Utility(self.u, last.input, self.r)
            e(i) == RPow(self.epsilon.q, RDiv(u[i], RMul(Rat(2, 1), self.delta_u))[1])
            p == last.res.scale.val
            out == last.res.output
        IN  /\ last.res.status = "ok"
            /\ ~IsNegative(self.epsilon)
            /\ Len(p) = n
            /\ RSum(p, n) = One
            /\ \A i, j \in 1 .. n : RMul(p[i], e(j)) = RMul(p[j], e(i))
            /\ (\A i, j \in 1 .. n : u[i] = u[j]) => \A i \in 1 .. n : p[i] = Rat(1, n)
            /\ out.kind = "ndarray"
            /\ Len(out.val) = self.size
            /\ \A i \in 1 .. self.size : out.val[i] \in Candidates(self.r)

\* every candidate of <<0, 1>> scores -2 for data with two ones: the weights
\* are 1/2 each under epsilon = log(3), and two samples are returned
C12_Witness ==
    /\ IsApply
    /\ last.mech0.cls = "ExponentialMechanism"
    /\ last.mech0.u = "count"
    /\ last.mech0.r = <<0, 1>>
    /\ last.mech0.epsilon = Ln(Rat(3, 1))
    /\ last.mech0.size = 2
    /\ last.input = NdArray(<<1, 1>>)
    /\ last.res.scale.val = <<Rat(1, 2), Rat(1, 2)>>
    /\ Len(last.res.output.val) = 2

\* C13: LaplaceMechanism.apply on a query result that is neither a scalar/array
\* nor a mapping (a plain list) raises nothing, validates nothing, draws no noise
\* and returns None, leaving the instance and the generator as they were; every
\* result that is not None passed the sensitivity-shape check, and a failed
\* check ends the call before any noise is drawn.
C13_LaplaceUnsupportedResult ==
    (IsApply /\ last.mech0.cls = "LaplaceMechanism") =>
        LET result == QueryGet(last.mech0.query, last.input)
        IN  /\ result.kind = "list" =>
                /\ last.res.status = "ok"
                /\ last.res.output = None
                /\ rng = last.rng0
                /\ mech = last.mech0
            /\ (last.res.status = "ok" /\ last.res.output.kind # "none") =>
                /\ result.kind # "list"
                /\ check_sensitivity_shape(mech.sensitivity, result)
            /\ (result.kind # "list" /\ ~check_sensitivity_shape(mech.sensitivity, result)) =>
                /\ last.res.status = "error"
                /\ rng = last.rng0

\* a two-entry sensitivity and a one-element list: as an array the result would
\* fail the shape check, as a list it comes back as None
C13_Witness ==
    /\ IsApply
    /\ last.mech0.cls = "LaplaceMechanism"
    /\ last.mech0.query = "ToList"
    /\ last.mech0.sensitivity.kind = "ndarray"
    /\ Len(last.mech0.sensitivity.val) = 2
    /\ last.input = NdArray(<<1>>)
    /\ last.res.status = "ok"
    /\ last.res.output = None
    /\ rng = last.rng0
====
